---------------------------- MODULE Spec2Model ----------------------------
(***************************************************************************)
(* Model of the network behaviour analyzer of Sentinel                     *)
(* (backend/app/services/network_behavior_analyzer.py): feature            *)
(* extraction from a transaction-edge list, DBSCAN clustering on           *)
(* z-score-normalised features, per-cluster analysis, cross-cluster        *)
(* pattern detection and the orchestration call.                           *)
(*                                                                         *)
(* Numbers.  Edge values are non-negative integers (wei).  Every real      *)
(* number the code computes from them (ratios, means, variances) is kept   *)
(* as an exact fraction <<n, d>> with d > 0 in lowest terms; a comparison  *)
(* with a decimal threshold (0.8, 0.5, 0.7) is a comparison of fractions.  *)
(* A standard deviation is kept through its square (the variance).         *)
(***************************************************************************)
EXTENDS Integers, Sequences, FiniteSets, TLC

VARIABLES
    pc,                \* position of the request inside analyze_network_clusters
    min_cluster_size,  \* argument of the request
    network_data,      \* the edge list the graph query returned
    node_features,     \* [order, feat]: the dict address -> feature vector
    scaler,            \* self.scaler: the analyzer instance's StandardScaler
    clusters,          \* dict cluster label -> member list, in insertion order
    cluster_analysis,  \* list of per-cluster analysis results
    attack_patterns,   \* list of cross-cluster patterns
    result,            \* what the call returned
    args,              \* arguments of a method called on its own
    thr                \* concurrent requests inside _detect_clusters

vars == <<pc, min_cluster_size, network_data, node_features, scaler, clusters,
          cluster_analysis, attack_patterns, result, args, thr>>

-----------------------------------------------------------------------------
(* Sequences and sets *)

Range(s) == {s[i] : i \in 1..Len(s)}

Max2(a, b) == IF a >= b THEN a ELSE b

Min2(a, b) == IF a <= b THEN a ELSE b

RECURSIVE SumSeq(_)
SumSeq(s) == IF s = <<>> THEN 0 ELSE s[1] + SumSeq(Tail(s))

RECURSIVE MaxSeq(_)
MaxSeq(s) == IF Len(s) = 1 THEN s[1] ELSE Max2(s[1], MaxSeq(Tail(s)))

RECURSIVE MinSeq(_)
MinSeq(s) == IF Len(s) = 1 THEN s[1] ELSE Min2(s[1], MinSeq(Tail(s)))

\* The element of a one-element set: The({F(x) : x \in {e}}) is F(e) with e
\* evaluated once.
The(S) == CHOOSE x \in S : TRUE

SelectIdx(s, Test(_)) == SelectSeq([i \in 1..Len(s) |-> i], Test)

\* The elements of a set of integers in increasing order.
RECURSIVE SortedSeq(_)
SortedSeq(S) ==
    IF S = {} THEN <<>>
    ELSE LET m == CHOOSE x \in S : \A y \in S : x <= y
         IN  <<m>> \o SortedSeq(S \ {m})

\* Non-decreasing sequences of length n over 1..k (multisets of menu indices).
RECURSIVE SortedLists(_, _)
SortedLists(k, n) ==
    IF n = 0 THEN {<<>>}
    ELSE UNION {{Append(s, x) : x \in (IF s = <<>> THEN 1 ELSE s[Len(s)])..k} :
                s \in SortedLists(k, n - 1)}

-----------------------------------------------------------------------------
(* Exact fractions *)

RECURSIVE GCD(_, _)
GCD(a, b) == IF b = 0 THEN a ELSE GCD(b, a % b)

Abs(x) == IF x < 0 THEN -x ELSE x

Rat(n, d) ==
    LET g == GCD(Abs(n), Abs(d))
        s == IF d < 0 THEN -1 ELSE 1
    IN  <<(s * n) \div g, (s * d) \div g>>

RInt(n) == <<n, 1>>

RAdd(a, b) == Rat(a[1] * b[2] + b[1] * a[2], a[2] * b[2])

RSub(a, b) == Rat(a[1] * b[2] - b[1] * a[2], a[2] * b[2])

RMul(a, b) == Rat(a[1] * b[1], a[2] * b[2])

RDiv(a, b) == Rat(a[1] * b[2], a[2] * b[1])

RLt(a, b) == a[1] * b[2] < b[1] * a[2]

RLe(a, b) == a[1] * b[2] <= b[1] * a[2]

RMax(a, b) == IF RLe(b, a) THEN a ELSE b

RMin(a, b) == IF RLe(a, b) THEN a ELSE b

RECURSIVE RSum(_)
RSum(s) == IF s = <<>> THEN RInt(0) ELSE RAdd(s[1], RSum(Tail(s)))

RMean(s) == RDiv(RSum(s), RInt(Len(s)))

\* Population variance (numpy's var/std and StandardScaler use ddof = 0).
RVar(s) ==
    LET m == RMean(s)
    IN  RDiv(RSum([i \in 1..Len(s) |-> RMul(RSub(s[i], m), RSub(s[i], m))]),
             RInt(Len(s)))

-----------------------------------------------------------------------------
(* Transaction edges *)

\* A timestamp field: absent/None, a string that does not parse, or an
\* ISO-8601 string, kept as its minute since the model's epoch.
NoTs == [kind |-> "none", minutes |-> 0]

BadTs == [kind |-> "bad", minutes |-> 0]

Iso(m) == [kind |-> "iso", minutes |-> m]

\* An edge dict.  value is <<>> when the dict has no 'value' key, <<v>> else.
Edge(f, t, v, ts) ==
    [from_address |-> f, to_address |-> t, value |-> v, timestamp |-> ts]

\* tx.get('value', 0)
GetValue(tx) == IF tx.value = <<>> THEN 0 ELSE tx.value[1]

\* tx.get('timestamp') is truthy
Truthy(ts) == ts.kind # "none"

MinutesPerDay == 1440

-----------------------------------------------------------------------------
(* _extract_network_features *)

DefaultStats ==
    [in_degree |-> 0, out_degree |-> 0, in_volume |-> 0, out_volume |-> 0,
     tx_count |-> 0, unique_counterparties |-> {}, timestamps |-> <<>>]

\* address_stats[a]: the defaultdict creates the entry on first access.
Touch(stats, a) ==
    IF a \in Range(stats.order) THEN stats
    ELSE [order |-> Append(stats.order, a),
          st    |-> [x \in Range(stats.order) \cup {a} |->
                        IF x = a THEN DefaultStats ELSE stats.st[x]]]

UpdateFrom(stats, tx) ==
    LET s0 == Touch(stats, tx.from_address)
        a  == tx.from_address
        o  == s0.st[a]
    IN  [s0 EXCEPT !.st[a] =
            [o EXCEPT !.out_degree = @ + 1,
                      !.out_volume = @ + GetValue(tx),
                      !.tx_count = @ + 1,
                      !.unique_counterparties = @ \cup {tx.to_address},
                      !.timestamps = IF Truthy(tx.timestamp)
                                     THEN Append(@, tx.timestamp) ELSE @]]

\* A bug that counts a self-transfer on the sending side only.
UpdateTo_SkipSelf(stats, tx) ==
    IF tx.from_address = tx.to_address THEN stats
    ELSE LET s0 == Touch(stats, tx.to_address)
             a  == tx.to_address
             o  == s0.st[a]
         IN  [s0 EXCEPT !.st[a] =
                 [o EXCEPT !.in_degree = @ + 1,
                           !.in_volume = @ + GetValue(tx),
                           !.tx_count = @ + 1,
                           !.unique_counterparties = @ \cup {tx.from_address},
                           !.timestamps = IF Truthy(tx.timestamp)
                                          THEN Append(@, tx.timestamp) ELSE @]]

UpdateTo(stats, tx) ==
    LET s0 == Touch(stats, tx.to_address)
        a  == tx.to_address
        o  == s0.st[a]
    IN  [s0 EXCEPT !.st[a] =
            [o EXCEPT !.in_degree = @ + 1,
                      !.in_volume = @ + GetValue(tx),
                      !.tx_count = @ + 1,
                      !.unique_counterparties = @ \cup {tx.from_address},
                      !.timestamps = IF Truthy(tx.timestamp)
                                     THEN Append(@, tx.timestamp) ELSE @]]

\* The loop over network_data (lines 109-128).
RECURSIVE AddressStats(_, _)
AddressStats(data, stats) ==
    IF data = <<>> THEN stats
    ELSE The({AddressStats(Tail(data), next) :
              next \in {UpdateTo(UpdateFrom(stats, data[1]), data[1])}})

\* A bug that takes the span from the first to the last timestamp of the
\* list instead of from the earliest to the latest.
ActivitySpan_FirstToLast(tss) ==
    IF tss = <<>> THEN 0
    ELSE IF \E i \in 1..Len(tss) : tss[i].kind = "bad" THEN 0
    ELSE Abs(tss[Len(tss)].minutes - tss[1].minutes) \div MinutesPerDay

\* Temporal feature (lines 143-154): one unparsable timestamp in the list
\* makes fromisoformat raise, and the bare except appends 0.
ActivitySpan(tss) ==
    IF tss = <<>> THEN 0
    ELSE IF \E i \in 1..Len(tss) : tss[i].kind = "bad" THEN 0
    ELSE LET ms == [i \in 1..Len(tss) |-> tss[i].minutes]
         IN  (MaxSeq(ms) - MinSeq(ms)) \div MinutesPerDay

\* balance_ratio = in_volume / max(1, in_volume + out_volume)
BalanceRatio(s) == Rat(s.in_volume, Max2(1, s.in_volume + s.out_volume))

\* The feature vector of one address.  The two volume features are the
\* volumes divided by 1e18; they are kept in wei, so the vector holds
\* 1e18 times the value the code stores in positions 3 and 4.
FeatureVector(s) ==
    [in_degree |-> s.in_degree,
     out_degree |-> s.out_degree,
     in_volume |-> s.in_volume,
     out_volume |-> s.out_volume,
     tx_count |-> s.tx_count,
     unique_counterparty_count |-> Cardinality(s.unique_counterparties),
     activity_span_days |-> ActivitySpan(s.timestamps),
     balance_ratio |-> BalanceRatio(s)]

EmptyStats == [order |-> <<>>, st |-> <<>>]

_extract_network_features(data) ==
    LET stats == AddressStats(data, EmptyStats)
    IN  [order |-> stats.order,
         feat  |-> [a \in Range(stats.order) |-> FeatureVector(stats.st[a])]]

NoFeatures == [order |-> <<>>, feat |-> <<>>]

-----------------------------------------------------------------------------
(* StandardScaler *)

\* One row of feature_matrix: the vector of an address as eight fractions.
FeatureRow(f) ==
    <<RInt(f.in_degree), RInt(f.out_degree), RInt(f.in_volume),
      RInt(f.out_volume), RInt(f.tx_count),
      RInt(f.unique_counterparty_count), RInt(f.activity_span_days),
      f.balance_ratio>>

NumFeatures == 8

\* feature_matrix = np.array([node_features[addr] for addr in addresses])
FeatureMatrix(features) ==
    [i \in 1..Len(features.order) |-> FeatureRow(features.feat[features.order[i]])]

Column(matrix, j) == [i \in 1..Len(matrix) |-> matrix[i][j]]

\* A scaler that was never fitted.
UnfittedScaler == [fitted |-> FALSE, mean |-> <<>>, var |-> <<>>]

\* StandardScaler.fit: per-column mean and population variance.
ScalerFit(matrix) ==
    [fitted |-> TRUE,
     mean   |-> [j \in 1..NumFeatures |-> RMean(Column(matrix, j))],
     var    |-> [j \in 1..NumFeatures |-> RVar(Column(matrix, j))]]

\* StandardScaler.transform with the statistics held by sc:
\* (x - mean_) / scale_, where scale_ = sqrt(var_) and a zero scale counts
\* as 1.  An entry is kept as the deviation x - mean_ together with the
\* squared scale of its column.
ScalerTransform(sc, matrix) ==
    [dev    |-> [i \in 1..Len(matrix) |->
                    [j \in 1..NumFeatures |-> RSub(matrix[i][j], sc.mean[j])]],
     scale2 |-> [j \in 1..NumFeatures |->
                    IF sc.var[j][1] = 0 THEN RInt(1) ELSE sc.var[j]]]

-----------------------------------------------------------------------------
(* DBSCAN(eps=0.5, min_samples=min_cluster_size).fit_predict *)

\* eps = EpsNum / EpsDen
EpsNum == 1

EpsDen == 2

Eps2 == Rat(EpsNum * EpsNum, EpsDen * EpsDen)

\* Squared euclidean distance of rows p and q of the scaled matrix, summed
\* column by column; the sum stops growing once it is past eps squared.
SquaredDiff(scaled, p, q, j) ==
    LET d == RSub(scaled.dev[p][j], scaled.dev[q][j])
    IN  IF d[1] = 0 THEN RInt(0) ELSE RDiv(RMul(d, d), scaled.scale2[j])

RECURSIVE Dist2From(_, _, _, _, _)
Dist2From(scaled, p, q, j, acc) ==
    IF j > NumFeatures \/ RLt(Eps2, acc) THEN acc
    ELSE The({Dist2From(scaled, p, q, j + 1, next) :
              next \in {RAdd(acc, SquaredDiff(scaled, p, q, j))}})

WithinEps(scaled, p, q) == RLe(Dist2From(scaled, p, q, 1, RInt(0)), Eps2)

\* neighborhoods[i]: the points within eps of point i, itself included.
Neighborhoods(scaled) ==
    LET n == Len(scaled.dev)
    IN  [i \in 1..n |-> {j \in 1..n : i = j \/ WithinEps(scaled, i, j)}]

\* The points one seed labels: itself, and every still unlabelled point
\* reached through the neighbourhoods of core points.
RECURSIVE Expand(_, _, _, _)
Expand(S, nb, core, unlabelled) ==
    LET More(new) == IF new = {} THEN S ELSE Expand(S \cup new, nb, core, unlabelled)
    IN  The({More(new) :
             new \in {{v \in unlabelled \ S : \E c \in S \cap core : v \in nb[c]}}})

NoiseLabel == -1

\* dbscan_inner: points in index order; an unlabelled core point seeds the
\* next label.
RECURSIVE DbscanInner(_, _, _, _, _)
DbscanInner(i, labels, label_num, nb, core) ==
    IF i > Len(labels) THEN labels
    ELSE IF labels[i] # NoiseLabel \/ i \notin core
         THEN DbscanInner(i + 1, labels, label_num, nb, core)
    ELSE LET unl == {v \in 1..Len(labels) : labels[v] = NoiseLabel}
             Labelled(grp) ==
                 [v \in 1..Len(labels) |->
                     IF v \in grp THEN label_num ELSE labels[v]]
         IN  The({DbscanInner(i + 1, next, label_num + 1, nb, core) :
                  next \in {Labelled(grp) : grp \in {Expand({i}, nb, core, unl)}}})

Dbscan(scaled, min_samples) ==
    LET n == Len(scaled.dev)
        Run(nb) ==
            DbscanInner(1, [i \in 1..n |-> NoiseLabel], 0, nb,
                        {i \in 1..n : Cardinality(nb[i]) >= min_samples})
    IN  The({Run(nb) : nb \in {Neighborhoods(scaled)}})

-----------------------------------------------------------------------------
(* _detect_clusters *)

\* A bug that keys the dict by the row instead of by the label: one cluster
\* per labelled row, holding the addresses that carry the row's label.
GroupByLabel_PerRow(addresses, labels, i, acc) ==
    LET rows == SortedSeq({r \in 1..Len(addresses) : labels[r] # NoiseLabel})
        SameLabel(r) == SortedSeq({q \in 1..Len(addresses) : labels[q] = labels[r]})
    IN  [k \in 1..Len(rows) |->
            [cluster_id |-> rows[k] - 1,
             nodes |-> [j \in 1..Len(SameLabel(rows[k])) |->
                           addresses[SameLabel(rows[k])[j]]]]]

\* clusters[label].append(addr) over zip(addresses, cluster_labels): the
\* dict as a sequence of [cluster_id, nodes] in insertion order.
RECURSIVE GroupByLabel(_, _, _, _)
GroupByLabel(addresses, labels, i, acc) ==
    IF i > Len(addresses) THEN acc
    ELSE IF labels[i] = NoiseLabel
         THEN GroupByLabel(addresses, labels, i + 1, acc)
    ELSE The({GroupByLabel(addresses, labels, i + 1, next) :
              next \in {IF \E k \in 1..Len(acc) : acc[k].cluster_id = labels[i]
                        THEN [k \in 1..Len(acc) |->
                                 IF acc[k].cluster_id = labels[i]
                                 THEN [acc[k] EXCEPT
                                          !.nodes = Append(@, addresses[i])]
                                 ELSE acc[k]]
                        ELSE Append(acc, [cluster_id |-> labels[i],
                                          nodes |-> <<addresses[i]>>])}})

\* A bug that leaves the size filter out.
KeepCluster_Any(c, mcs) == TRUE

\* Filter out small clusters (lines 189-192).
KeepCluster(c, mcs) == Len(c.nodes) >= mcs

FilterClusters(grouped, mcs) ==
    LET Keep(c) == KeepCluster(c, mcs) IN SelectSeq(grouped, Keep)

\* Lines 178-194: DBSCAN on the scaled matrix, grouping, filtering.
ClustersOf(addresses, scaled, mcs) ==
    LET Group(labels) == GroupByLabel(addresses, labels, 1, <<>>)
        Labels(sm)    == The({Group(labels) : labels \in {Dbscan(sm, mcs)}})
    IN  FilterClusters(The({Labels(sm) : sm \in {scaled}}), mcs)

\* A bug that transforms with the statistics the scaler held before the
\* fit, when it held any.
FittedStatistics_Previous(sc, fit) == IF sc.fitted THEN sc ELSE fit

\* fit_transform of one call: fit replaces whatever statistics sc, the
\* instance's scaler, held, and transform reads the new ones.
FittedStatistics(sc, fit) == fit

\* fit_transform of the instance's scaler, then ClustersOf.
FitAndCluster(addresses, matrix, mcs, sc) ==
    LET With(fit) ==
            [clusters |-> ClustersOf(addresses,
                              ScalerTransform(FittedStatistics(sc, fit), matrix),
                              mcs),
             scaler   |-> fit]
    IN  The({With(fit) : fit \in {ScalerFit(matrix)}})

\* A bug that keeps the row numbers instead of the dict's keys.
Addresses_RowNumbers(features) == [i \in 1..Len(features.order) |-> i]

\* addresses = list(node_features.keys())
Addresses(features) == features.order

\* The whole method: [clusters, scaler], the scaler being instance state.
_detect_clusters(features, mcs, sc) ==
    IF features.order = <<>> THEN [clusters |-> <<>>, scaler |-> sc]
    ELSE The({FitAndCluster(Addresses(features), matrix, mcs, sc) :
              matrix \in {FeatureMatrix(features)}})

-----------------------------------------------------------------------------
(* _analyze_funding_patterns *)

\* tx['from_address'] in cluster_nodes, for a member list
InCluster(a, cluster_nodes) == a \in Range(cluster_nodes)

\* A bug that takes every edge into the cluster for a funding edge, the ones
\* between members included.
IsFunding_AnyInbound(tx, cluster_nodes) ==
    InCluster(tx.to_address, cluster_nodes)

IsFunding(tx, cluster_nodes) ==
    /\ InCluster(tx.to_address, cluster_nodes)
    /\ ~InCluster(tx.from_address, cluster_nodes)

\* external_funding: its keys (the funding sources) and, per source, the
\* total it sent.  What is computed from the dict does not depend on its order.
\* A bug that takes for a funding source the sender of every edge with one
\* end in the cluster, the members that pay an outsider included.
FundingSources_Crossing(cluster_nodes, data) ==
    LET Test(tx) == InCluster(tx.to_address, cluster_nodes)
                        # InCluster(tx.from_address, cluster_nodes)
    IN  {tx.from_address : tx \in Range(SelectSeq(data, Test))}

FundingSources(cluster_nodes, data) ==
    LET Test(tx) == IsFunding(tx, cluster_nodes)
    IN  {tx.from_address : tx \in Range(SelectSeq(data, Test))}

FundedBy(src, cluster_nodes, data) ==
    LET Test(tx) == IsFunding(tx, cluster_nodes) /\ tx.from_address = src
        txs == SelectSeq(data, Test)
    IN  SumSeq([i \in 1..Len(txs) |-> GetValue(txs[i])])

\* wei / 1e18: the amount in ether, kept as the number of wei it is made of.
InEther(wei) == [wei_over_1e18 |-> wei]

\* A real number 1 - sqrt(q), for a fraction q >= 0.
OneMinusSqrt(q) == [one_minus_sqrt_of |-> q]

\* 1 - sqrt(q) > n/d, for 0 <= n/d <= 1
ExceedsFrac(x, n, d) ==
    RLt(x.one_minus_sqrt_of, RMul(Rat(d - n, d), Rat(d - n, d)))

\* 1 - (np.std(amounts) / max(1, np.mean(amounts))) if amounts else 0
AmountSimilarity(amounts) ==
    IF amounts = <<>> THEN OneMinusSqrt(RInt(1))
    ELSE LET ra == [i \in 1..Len(amounts) |-> RInt(amounts[i])]
             m  == RMax(RInt(1), RMean(ra))
         IN  OneMinusSqrt(RDiv(RVar(ra), RMul(m, m)))

_analyze_funding_patterns(cluster_nodes, data) ==
    LET srcs    == SortedSeq(FundingSources(cluster_nodes, data))
        amounts == [i \in 1..Len(srcs) |-> FundedBy(srcs[i], cluster_nodes, data)]
        total_funding == SumSeq(amounts)
        max_funding   == IF amounts = <<>> THEN 0 ELSE MaxSeq(amounts)
    IN  [external_funding_sources |-> Len(srcs),
         total_funding_amount     |-> InEther(total_funding),
         funding_concentration    |-> Rat(max_funding, Max2(1, total_funding)),
         amount_similarity        |-> AmountSimilarity(amounts)]

-----------------------------------------------------------------------------
(* _analyze_timing_patterns *)

WindowMinutes == 15

\* timestamp.replace(minute=timestamp.minute // 15 * 15, second=0, ...)
WindowKey(m) == (m \div WindowMinutes) * WindowMinutes

\* A bug that lets an unparsable timestamp through, into the first window.
Parses_NotNone(ts) == ts.kind # "none"

\* datetime.fromisoformat(tx['timestamp'].replace('Z', '+00:00')) returns:
\* the key is there, holds a string, and the string is ISO-8601.
Parses(ts) == ts.kind = "iso"

\* The members an edge adds to its window.
EdgeMembers(tx, cluster_nodes) ==
    {a \in {tx.from_address, tx.to_address} : InCluster(a, cluster_nodes)}

\* time_windows: [window, nodes] in insertion order.  An edge whose
\* timestamp is missing, None or unparsable raises inside the try and is
\* skipped.
RECURSIVE TimeWindows(_, _, _)
TimeWindows(cluster_nodes, txs, acc) ==
    IF txs = <<>> THEN acc
    ELSE LET tx == txs[1]
             w  == WindowKey(tx.timestamp.minutes)
             ms == EdgeMembers(tx, cluster_nodes)
         IN  The({TimeWindows(cluster_nodes, Tail(txs), next) :
                  next \in {IF ~Parses(tx.timestamp) \/ ms = {} THEN acc
                            ELSE IF \E k \in 1..Len(acc) : acc[k].window = w
                            THEN [k \in 1..Len(acc) |->
                                     IF acc[k].window = w
                                     THEN [acc[k] EXCEPT !.nodes = @ \cup ms]
                                     ELSE acc[k]]
                            ELSE Append(acc, [window |-> w, nodes |-> ms])}})

\* A bug that also lists the windows with exactly half of the members.
IsCoordinated_AtLeastHalf(rate) == RLe(Rat(1, 2), rate)

\* if len(nodes) / len(cluster_nodes) > 0.5
IsCoordinated(rate) == RLt(Rat(1, 2), rate)

_analyze_timing_patterns(cluster_nodes, cluster_txs) ==
    IF cluster_txs = <<>>
    THEN [activity_correlation |-> RInt(0), coordinated_windows |-> <<>>]
    ELSE LET tw == TimeWindows(cluster_nodes, cluster_txs, <<>>)
             n  == Len(cluster_nodes)
             window_participation ==
                 [k \in 1..Len(tw) |-> Rat(Cardinality(tw[k].nodes), n)]
             Coordinated(k) == IsCoordinated(window_participation[k])
             idx == SelectIdx(tw, Coordinated)
         IN  [activity_correlation |->
                  IF tw = <<>> THEN RInt(0) ELSE RMean(window_participation),
              coordinated_windows |->
                  [k \in 1..Len(idx) |->
                      [timestamp |-> tw[idx[k]].window,
                       participation_rate |-> window_participation[idx[k]]]],
              peak_coordination |->
                  IF tw = <<>> THEN RInt(0)
                  ELSE LET Best(k) == \A l \in 1..Len(tw) :
                               RLe(window_participation[l], window_participation[k])
                       IN  window_participation[CHOOSE k \in 1..Len(tw) : Best(k)]]

-----------------------------------------------------------------------------
(* _detect_cluster_attack_patterns *)

\* self.thresholds['sybil_min_cluster_size']
sybil_min_cluster_size == 10

\* len(funding_sources) <= 3
SybilMaxFundingSources == 3

IsInternal(tx, cluster_nodes) ==
    /\ InCluster(tx.from_address, cluster_nodes)
    /\ InCluster(tx.to_address, cluster_nodes)

IsExternal(tx, cluster_nodes) ==
    InCluster(tx.from_address, cluster_nodes) # InCluster(tx.to_address, cluster_nodes)

\* sum(tx['value'] for tx in ...) over the edges that passed the test
VolumeOf(txs) == SumSeq([i \in 1..Len(txs) |-> txs[i].value[1]])

\* tx['value'] raises KeyError for an edge without the key; the two sums
\* read it for the internal and the external edges of the cluster.
AttackPatternsRaise(cluster_nodes, data) ==
    \E i \in 1..Len(data) :
        /\ data[i].value = <<>>
        /\ IsInternal(data[i], cluster_nodes) \/ IsExternal(data[i], cluster_nodes)

\* A bug that flags only clusters with fewer funding sources than the limit.
SybilAttack_Fewer(cluster_nodes, data) ==
    /\ Len(cluster_nodes) >= sybil_min_cluster_size
    /\ Cardinality(FundingSources(cluster_nodes, data)) < SybilMaxFundingSources

SybilAttack(cluster_nodes, data) ==
    /\ Len(cluster_nodes) >= sybil_min_cluster_size
    /\ Cardinality(FundingSources(cluster_nodes, data)) <= SybilMaxFundingSources

\* A bug that flags internal volume equal to twice the external volume.
WashTrading_AtLeast(cluster_nodes, data) ==
    LET Inner(tx) == IsInternal(tx, cluster_nodes)
        Outer(tx) == IsExternal(tx, cluster_nodes)
    IN  VolumeOf(SelectSeq(data, Inner)) >= VolumeOf(SelectSeq(data, Outer)) * 2

WashTrading(cluster_nodes, data) ==
    LET Inner(tx) == IsInternal(tx, cluster_nodes)
        Outer(tx) == IsExternal(tx, cluster_nodes)
    IN  VolumeOf(SelectSeq(data, Inner)) > VolumeOf(SelectSeq(data, Outer)) * 2

\* Defined when AttackPatternsRaise is false.
_detect_cluster_attack_patterns(cluster_nodes, data) ==
    [sybil_attack      |-> SybilAttack(cluster_nodes, data),
     wash_trading      |-> WashTrading(cluster_nodes, data),
     flash_loan_attack |-> FALSE,
     mixer_usage       |-> FALSE]

-----------------------------------------------------------------------------
(* _calculate_cluster_risk_score, _classify_cluster_type, _get_risk_level *)

\* A bug that includes the sizes 10, 20 and 50 in the tier above them.
SizeFactor_Inclusive(cluster_size) ==
    IF cluster_size >= 50 THEN 30
    ELSE IF cluster_size >= 20 THEN 20
    ELSE IF cluster_size >= 10 THEN 10
    ELSE 0

\* A bug that gives the clusters above 50 the lowest tier.
SizeFactor_LargestLowest(cluster_size) ==
    IF cluster_size > 10 /\ cluster_size <= 20 THEN 10
    ELSE IF cluster_size > 20 /\ cluster_size <= 50 THEN 20
    ELSE IF cluster_size > 50 THEN 10
    ELSE 0

SizeFactor(cluster_size) ==
    IF cluster_size > 50 THEN 30
    ELSE IF cluster_size > 20 THEN 20
    ELSE IF cluster_size > 10 THEN 10
    ELSE 0

FundingFactor(funding_analysis) ==
    IF RLt(Rat(8, 10), funding_analysis.funding_concentration) THEN 25
    ELSE IF RLt(Rat(5, 10), funding_analysis.funding_concentration) THEN 15
    ELSE 0

SimilarityFactor(funding_analysis) ==
    IF ExceedsFrac(funding_analysis.amount_similarity, 8, 10) THEN 20 ELSE 0

TimingFactor(timing_analysis) ==
    IF RLt(Rat(7, 10), timing_analysis.activity_correlation) THEN 25 ELSE 0

\* sum(attack_indicators.values())
AttackCount(attack_indicators) ==
    Cardinality({k \in DOMAIN attack_indicators : attack_indicators[k]})

\* A bug that returns the sum without the cap.
CapScore_Uncapped(risk_score) == risk_score

\* return min(100, risk_score)
CapScore(risk_score) == Min2(100, risk_score)

_calculate_cluster_risk_score(cluster_size, funding_analysis, timing_analysis, attack_indicators) ==
    CapScore(SizeFactor(cluster_size) + FundingFactor(funding_analysis)
             + SimilarityFactor(funding_analysis) + TimingFactor(timing_analysis)
             + AttackCount(attack_indicators) * 15)

\* A bug that tests wash trading before the Sybil indicator.
_classify_cluster_type_WashFirst(funding_analysis, timing_analysis, attack_indicators) ==
    IF attack_indicators.wash_trading THEN "Wash Trading Ring"
    ELSE IF attack_indicators.sybil_attack THEN "Sybil Attack Network"
    ELSE IF RLt(Rat(7, 10), timing_analysis.activity_correlation)
         THEN "Coordinated Bot Network"
    ELSE IF RLt(Rat(8, 10), funding_analysis.funding_concentration)
         THEN "Single-Source Funded Network"
    ELSE "Organic Cluster"

_classify_cluster_type(funding_analysis, timing_analysis, attack_indicators) ==
    IF attack_indicators.sybil_attack THEN "Sybil Attack Network"
    ELSE IF attack_indicators.wash_trading THEN "Wash Trading Ring"
    ELSE IF RLt(Rat(7, 10), timing_analysis.activity_correlation)
         THEN "Coordinated Bot Network"
    ELSE IF RLt(Rat(8, 10), funding_analysis.funding_concentration)
         THEN "Single-Source Funded Network"
    ELSE "Organic Cluster"

\* A bug that needs more than 80, 60, 40, 20 for a level.
_get_risk_level_Above(risk_score) ==
    IF risk_score > 80 THEN "CRITICAL"
    ELSE IF risk_score > 60 THEN "HIGH"
    ELSE IF risk_score > 40 THEN "MEDIUM"
    ELSE IF risk_score > 20 THEN "LOW"
    ELSE "MINIMAL"

_get_risk_level(risk_score) ==
    IF risk_score >= 80 THEN "CRITICAL"
    ELSE IF risk_score >= 60 THEN "HIGH"
    ELSE IF risk_score >= 40 THEN "MEDIUM"
    ELSE IF risk_score >= 20 THEN "LOW"
    ELSE "MINIMAL"

_generate_cluster_recommendations(cluster_type, risk_level) ==
    (IF risk_level \in {"CRITICAL", "HIGH"}
     THEN <<"Immediate investigation recommended",
            "Consider flagging all addresses in cluster">>
     ELSE <<>>)
    \o (IF cluster_type = "Sybil Attack Network"
        THEN <<"Verify funding sources",
               "Check for identity verification bypassing">>
        ELSE IF cluster_type = "Wash Trading Ring"
        THEN <<"Monitor for artificial volume inflation",
               "Check for market manipulation">>
        ELSE <<>>)

-----------------------------------------------------------------------------
(* _analyze_cluster_behavior *)

TouchesCluster(tx, cluster_nodes) ==
    InCluster(tx.from_address, cluster_nodes) \/ InCluster(tx.to_address, cluster_nodes)

\* Lines 218-225 and 241: score, type, level and recommendations.
Assess(cluster_size, funding_analysis, timing_analysis, attack_indicators) ==
    LET risk_score == _calculate_cluster_risk_score(cluster_size,
                          funding_analysis, timing_analysis, attack_indicators)
        cluster_type == _classify_cluster_type(funding_analysis, timing_analysis,
                                               attack_indicators)
        risk_level == _get_risk_level(risk_score)
    IN  [cluster_type |-> cluster_type,
         risk_score |-> risk_score,
         risk_level |-> risk_level,
         recommendations |->
             _generate_cluster_recommendations(cluster_type, risk_level)]

\* Defined when AttackPatternsRaise(cluster_nodes, data) is false.
_analyze_cluster_behavior(cluster_nodes, data, cluster_id) ==
    LET Touch1(tx) == TouchesCluster(tx, cluster_nodes)
        Inner(tx)  == IsInternal(tx, cluster_nodes)
        cluster_txs  == SelectSeq(data, Touch1)
        internal_txs == SelectSeq(cluster_txs, Inner)
        funding_analysis  == _analyze_funding_patterns(cluster_nodes, data)
        timing_analysis   == _analyze_timing_patterns(cluster_nodes, cluster_txs)
        attack_indicators == _detect_cluster_attack_patterns(cluster_nodes, data)
        a == Assess(Len(cluster_nodes), funding_analysis, timing_analysis,
                    attack_indicators)
    IN  [cluster_id |-> cluster_id,
         cluster_type |-> a.cluster_type,
         risk_score |-> a.risk_score,
         risk_level |-> a.risk_level,
         size |-> Len(cluster_nodes),
         addresses |-> cluster_nodes,
         connectivity |->
             [internal_transactions |-> Len(internal_txs),
              external_transactions |-> Len(cluster_txs) - Len(internal_txs)],
         funding_analysis |-> funding_analysis,
         timing_analysis |-> timing_analysis,
         attack_indicators |-> attack_indicators,
         recommendations |-> a.recommendations]

-----------------------------------------------------------------------------
(* _detect_attack_patterns *)

\* if len(cross_cluster_txs) > 5
CrossClusterThreshold == 5

\* A bug that emits the pattern at the threshold already.
ExceedsThreshold_AtLeast(n) == n >= CrossClusterThreshold

ExceedsThreshold(n) == n > CrossClusterThreshold

\* The edges between the members of two clusters, in either direction.
CrossClusterTxs(data, nodes1, nodes2) ==
    LET Test(tx) ==
            \/ InCluster(tx.from_address, nodes1) /\ InCluster(tx.to_address, nodes2)
            \/ InCluster(tx.from_address, nodes2) /\ InCluster(tx.to_address, nodes1)
    IN  SelectSeq(data, Test)

\* f'Clusters {cluster1_id} and {cluster2_id} show coordinated activity':
\* the text with its two holes filled.
Description(cluster1_id, cluster2_id) ==
    <<"Clusters ", cluster1_id, " and ", cluster2_id, " show coordinated activity">>

\* f'{len(cross_cluster_txs)} transactions between clusters'
Evidence(n) == <<n, " transactions between clusters">>

\* The inner loop: cluster i against the clusters j, j+1, ...
RECURSIVE PatternsInner(_, _, _, _)
PatternsInner(data, cl, i, j) ==
    IF j > Len(cl) THEN <<>>
    ELSE LET n == Len(CrossClusterTxs(data, cl[i].nodes, cl[j].nodes))
         IN  (IF cl[i].cluster_id # cl[j].cluster_id /\ ExceedsThreshold(n)
              THEN <<[pattern_type |-> "Cross-Cluster Coordination",
                      description  |-> Description(cl[i].cluster_id,
                                                   cl[j].cluster_id),
                      risk_level   |-> "HIGH",
                      evidence     |-> Evidence(n)]>>
              ELSE <<>>)
             \o PatternsInner(data, cl, i, j + 1)

\* The outer loop: the clusters i, i+1, ...
RECURSIVE PatternsOuter(_, _, _)
PatternsOuter(data, cl, i) ==
    IF i > Len(cl) THEN <<>>
    ELSE PatternsInner(data, cl, i, 1) \o PatternsOuter(data, cl, i + 1)

_detect_attack_patterns(data, cl) == PatternsOuter(data, cl, 1)

-----------------------------------------------------------------------------
(* _calculate_network_metrics, _prepare_galaxy_view_data, the response *)

\* A bug that counts the senders only.
AllAddresses_Senders(data) == {data[i].from_address : i \in 1..Len(data)}

AllAddresses(data) ==
    {data[i].from_address : i \in 1..Len(data)} \cup
    {data[i].to_address : i \in 1..Len(data)}

ClusterSizes(cl) == [k \in 1..Len(cl) |-> Len(cl[k].nodes)]

_calculate_network_metrics(data, cl) ==
    [clustering_coverage |->
         Rat(SumSeq(ClusterSizes(cl)), Max2(1, Cardinality(AllAddresses(data)))),
     average_cluster_size |->
         IF cl = <<>> THEN RInt(0) ELSE Rat(SumSeq(ClusterSizes(cl)), Len(cl)),
     total_value_flow |-> InEther(SumSeq([i \in 1..Len(data) |-> GetValue(data[i])]))]

_get_risk_color(risk_level) ==
    CASE risk_level = "CRITICAL" -> "#ff4444"
      [] risk_level = "HIGH"     -> "#ff8800"
      [] risk_level = "MEDIUM"   -> "#ffbb00"
      [] risk_level = "LOW"      -> "#88cc00"
      [] risk_level = "MINIMAL"  -> "#00cc88"
      [] OTHER                   -> "#cccccc"

_prepare_galaxy_view_data(analyses) ==
    [nodes |-> [k \in 1..Len(analyses) |->
                   [id |-> analyses[k].cluster_id,
                    group |-> "cluster",
                    size |-> analyses[k].size,
                    risk_score |-> analyses[k].risk_score,
                    color |-> _get_risk_color(analyses[k].risk_level),
                    cluster_type |-> analyses[k].cluster_type]],
     cluster_meta |-> {analyses[k].cluster_id : k \in 1..Len(analyses)}]

\* 'suspicious_cluster_count': len([c ... if c['risk_level'] != 'LOW'])
IsSuspicious(analysis) == analysis.risk_level # "LOW"

\* The dict returned at lines 81-94 (without its analysis_timestamp).
Response(data, cl, analyses, patterns) ==
    [network_overview |->
         [total_addresses |-> Cardinality(AllAddresses(data)),
          total_transactions |-> Len(data),
          cluster_count |-> Len(cl),
          suspicious_cluster_count |-> Len(SelectSeq(analyses, IsSuspicious))],
     clusters |-> analyses,
     attack_patterns |-> patterns,
     network_metrics |-> _calculate_network_metrics(data, cl),
     galaxy_view_data |-> _prepare_galaxy_view_data(analyses)]

\* A bug that sends the empty edge list through the pipeline.
NoDataResponse_Overview == Response(<<>>, <<>>, <<>>, <<>>)

\* return {'clusters': [], 'analysis': 'No network data available'}
NoDataResponse == [clusters |-> <<>>, analysis |-> "No network data available"]

\* A bug that hands out, with the error, the analyses made so far.
ErrorResponse_WithClusters(e) == [error |-> e, clusters |-> cluster_analysis]

\* return {'error': str(e)}
ErrorResponse(e) == [error |-> e]

\* No call has returned yet.
NoResult == <<>>

-----------------------------------------------------------------------------
(* analyze_network_clusters: one request, step by step *)

\* Lines 52-59: the graph query has returned network_data.
Query ==
    /\ pc = "start"
    /\ IF network_data = <<>>
       THEN result' = NoDataResponse /\ pc' = "done"
       ELSE result' = result /\ pc' = "extract"
    /\ UNCHANGED <<min_cluster_size, network_data, node_features, scaler,
                   clusters, cluster_analysis, attack_patterns, args, thr>>

\* Line 62
ExtractFeatures ==
    /\ pc = "extract"
    /\ node_features' = _extract_network_features(network_data)
    /\ pc' = "cluster"
    /\ UNCHANGED <<min_cluster_size, network_data, scaler, clusters,
                   cluster_analysis, attack_patterns, result, args, thr>>

\* Line 65
DetectClusters ==
    /\ pc = "cluster"
    /\ LET r == _detect_clusters(node_features, min_cluster_size, scaler)
       IN  clusters' = r.clusters /\ scaler' = r.scaler
    /\ pc' = "analyze"
    /\ UNCHANGED <<min_cluster_size, network_data, node_features,
                   cluster_analysis, attack_patterns, result, args, thr>>

\* Lines 69-73: one iteration of the loop over the clusters.  The KeyError
\* of _detect_cluster_attack_patterns propagates to the except clause of
\* lines 96-98, which ends the call.
AnalyzeCluster ==
    /\ pc = "analyze"
    /\ Len(cluster_analysis) < Len(clusters)
    /\ LET c == clusters[Len(cluster_analysis) + 1]
       IN  IF AttackPatternsRaise(c.nodes, network_data)
           THEN /\ result' = ErrorResponse("'value'")
                /\ pc' = "done"
                /\ UNCHANGED cluster_analysis
           ELSE /\ cluster_analysis' =
                       Append(cluster_analysis,
                              _analyze_cluster_behavior(c.nodes, network_data,
                                                        c.cluster_id))
                /\ UNCHANGED <<pc, result>>
    /\ UNCHANGED <<min_cluster_size, network_data, node_features, scaler,
                   clusters, attack_patterns, args, thr>>

\* Line 76
DetectAttackPatterns ==
    /\ pc = "analyze"
    /\ Len(cluster_analysis) = Len(clusters)
    /\ attack_patterns' = _detect_attack_patterns(network_data, clusters)
    /\ pc' = "respond"
    /\ UNCHANGED <<min_cluster_size, network_data, node_features, scaler,
                   clusters, cluster_analysis, result, args, thr>>

\* Lines 79-94
Respond ==
    /\ pc = "respond"
    /\ result' = Response(network_data, clusters, cluster_analysis, attack_patterns)
    /\ pc' = "done"
    /\ UNCHANGED <<min_cluster_size, network_data, node_features, scaler,
                   clusters, cluster_analysis, attack_patterns, args, thr>>

-----------------------------------------------------------------------------
(* The requests of the pipeline specification *)

MaxEdges == 4

MaxMinClusterSize == 4

V(n) == <<n>>

NoV == <<>>

\* The edges a request's edge list is made of: a hub (1) paying 2 and 3,
\* 4 and 5 paying the hub, transfers between 2 and 3, a self-transfer;
\* with and without a value, with a parsable, an unparsable and no timestamp.
EdgeMenu ==
    <<Edge(1, 2, V(1), NoTs), Edge(1, 3, V(1), NoTs),
      Edge(1, 2, NoV, NoTs),  Edge(1, 3, NoV, NoTs),
      Edge(4, 1, V(1), NoTs), Edge(5, 1, V(1), NoTs),
      Edge(4, 1, NoV, NoTs),  Edge(5, 1, NoV, NoTs),
      Edge(2, 3, V(2), Iso(0)), Edge(3, 2, V(2), Iso(5)),
      Edge(3, 3, V(1), BadTs), Edge(6, 6, V(3), Iso(20))>>

FromMenu(menu, l) == [i \in 1..Len(l) |-> menu[l[i]]]

\* Edge lists of at most n edges of a menu, in menu order.
EdgeLists(menu, n) ==
    UNION {{FromMenu(menu, l) : l \in SortedLists(Len(menu), k)} : k \in 0..n}

Init ==
    /\ pc = "start"
    /\ min_cluster_size \in 1..MaxMinClusterSize
    /\ network_data \in EdgeLists(EdgeMenu, MaxEdges)
    /\ node_features = NoFeatures
    /\ scaler = UnfittedScaler
    /\ clusters = <<>>
    /\ cluster_analysis = <<>>
    /\ attack_patterns = <<>>
    /\ result = NoResult
    /\ args = <<>>
    /\ thr = <<>>

Next ==
    \/ Query
    \/ ExtractFeatures
    \/ DetectClusters
    \/ AnalyzeCluster
    \/ DetectAttackPatterns
    \/ Respond

Spec == Init /\ [][Next]_vars

-----------------------------------------------------------------------------
(* Requests over a fan: one hub paying each leaf once *)

MaxLeaves == 7

FanBase == 2

\* Amounts that start at FanBase and grow by 0 or 1 from leaf to leaf.
RECURSIVE Staircases(_)
Staircases(n) ==
    IF n = 1 THEN {<<FanBase>>}
    ELSE UNION {{Append(v, v[n - 1]), Append(v, v[n - 1] + 1)} :
                v \in Staircases(n - 1)}

\* The hub is address 0, the leaves are 1, 2, ...
FanList(v) == [i \in 1..Len(v) |-> Edge(0, i, V(v[i]), NoTs)]

FanLists == UNION {{FanList(v) : v \in Staircases(n)} : n \in 1..MaxLeaves}

InitFan ==
    /\ pc = "start"
    /\ min_cluster_size \in 1..MaxMinClusterSize
    /\ network_data \in FanLists
    /\ node_features = NoFeatures
    /\ scaler = UnfittedScaler
    /\ clusters = <<>>
    /\ cluster_analysis = <<>>
    /\ attack_patterns = <<>>
    /\ result = NoResult
    /\ args = <<>>
    /\ thr = <<>>

SpecFan == InitFan /\ [][Next]_vars

-----------------------------------------------------------------------------
(* Requests over parallel pairs: address 2i-1 and address 2i exchange edges *)

MaxPairs == 3

MaxCopies == 5

Copies(tx, n) == [i \in 1..n |-> tx]

\* Per pair, f edges from the odd to the even address and r edges back.
RECURSIVE PairList(_, _, _)
PairList(p, f, r) ==
    IF p = 0 THEN <<>>
    ELSE PairList(p - 1, f, r)
         \o Copies(Edge(2 * p - 1, 2 * p, V(1), NoTs), f)
         \o Copies(Edge(2 * p, 2 * p - 1, V(1), NoTs), r)

PairLists ==
    {PairList(p, f, r) : p \in 1..MaxPairs, f \in 0..MaxCopies, r \in 0..MaxCopies}

InitCross ==
    /\ pc = "start"
    /\ min_cluster_size \in 1..MaxMinClusterSize
    /\ network_data \in PairLists
    /\ node_features = NoFeatures
    /\ scaler = UnfittedScaler
    /\ clusters = <<>>
    /\ cluster_analysis = <<>>
    /\ attack_patterns = <<>>
    /\ result = NoResult
    /\ args = <<>>
    /\ thr = <<>>

SpecCross == InitCross /\ [][Next]_vars

-----------------------------------------------------------------------------
(* Requests whose edges carry timestamps days apart, unparsable or absent *)

MaxTimeEdges == 3

\* The minutes 0, 10, 1439 (one minute short of a day), 20 and 2885 (two
\* days and 5 minutes); every edge has a value.
TimeMenu ==
    <<Edge(1, 2, V(1), Iso(0)),    Edge(1, 2, V(1), Iso(10)),
      Edge(1, 2, V(1), Iso(1439)), Edge(2, 1, V(1), Iso(2885)),
      Edge(1, 2, V(1), BadTs),     Edge(2, 3, V(1), BadTs),
      Edge(1, 3, V(1), NoTs),      Edge(3, 1, V(1), Iso(20))>>

InitTime ==
    /\ pc = "start"
    /\ min_cluster_size \in 1..MaxMinClusterSize
    /\ network_data \in EdgeLists(TimeMenu, MaxTimeEdges)
    /\ node_features = NoFeatures
    /\ scaler = UnfittedScaler
    /\ clusters = <<>>
    /\ cluster_analysis = <<>>
    /\ attack_patterns = <<>>
    /\ result = NoResult
    /\ args = <<>>
    /\ thr = <<>>

SpecTime == InitTime /\ [][Next]_vars

-----------------------------------------------------------------------------
(* _analyze_cluster_behavior on its own: a cluster 1..n and an edge list *)

MaxBehaviorEdges == 4

BehaviorSizes == {2, 9, 10, 11, 12}

\* Four outside funders (101..104) of member 1, one of them also with an
\* edge that has no value; edges between the members 1 and 2; an edge out
\* of the cluster; edges between the outsiders 300 and 301; a funding
\* edge that carries nothing; and a funding edge that carries much.
BehaviorMenu ==
    <<Edge(101, 1, V(1), NoTs), Edge(102, 1, V(1), NoTs),
      Edge(103, 1, V(1), NoTs), Edge(104, 1, V(1), NoTs),
      Edge(101, 1, NoV, NoTs),
      Edge(1, 2, V(2), Iso(0)), Edge(2, 1, V(3), Iso(5)),
      Edge(1, 200, V(1), Iso(20)),
      Edge(300, 301, V(5), Iso(0)), Edge(300, 301, NoV, NoTs),
      Edge(101, 2, V(0), Iso(5)), Edge(102, 2, V(9), Iso(20))>>

ClusterOf(n) == [i \in 1..n |-> i]

InitBehavior ==
    /\ pc = "behavior"
    /\ args \in [cluster_nodes : {ClusterOf(n) : n \in BehaviorSizes}, cluster_id : {0}]
    /\ network_data \in EdgeLists(BehaviorMenu, MaxBehaviorEdges)
    /\ min_cluster_size = 1
    /\ node_features = NoFeatures
    /\ scaler = UnfittedScaler
    /\ clusters = <<>>
    /\ cluster_analysis = <<>>
    /\ attack_patterns = <<>>
    /\ result = NoResult
    /\ thr = <<>>

\* What the caller of _analyze_cluster_behavior sees when it raises.
Raised(e) == [raised |-> e]

\* One call of _analyze_cluster_behavior (lines 196-242): it returns the
\* analysis, or the KeyError of lines 329-332 leaves it.
AnalyzeBehavior ==
    /\ pc = "behavior"
    /\ result' = IF AttackPatternsRaise(args.cluster_nodes, network_data)
                 THEN Raised("KeyError")
                 ELSE _analyze_cluster_behavior(args.cluster_nodes, network_data,
                                                args.cluster_id)
    /\ pc' = "analyzed"
    /\ UNCHANGED <<min_cluster_size, network_data, node_features, scaler,
                   clusters, cluster_analysis, attack_patterns, args, thr>>

SpecBehavior == InitBehavior /\ [][AnalyzeBehavior]_vars

-----------------------------------------------------------------------------
(* Requests with a min_cluster_size below 1 *)

MaxInvalid == 1

MaxConfigEdges == 2

InitConfig ==
    /\ pc = "start"
    /\ min_cluster_size \in (0 - MaxInvalid)..1
    /\ network_data \in EdgeLists(EdgeMenu, MaxConfigEdges)
    /\ node_features = NoFeatures
    /\ scaler = UnfittedScaler
    /\ clusters = <<>>
    /\ cluster_analysis = <<>>
    /\ attack_patterns = <<>>
    /\ result = NoResult
    /\ args = <<>>
    /\ thr = <<>>

\* Line 65 with min_samples below 1, which the code passes to DBSCAN as it
\* is.  What DBSCAN does with it depends on the scikit-learn installed (the
\* repository pins none): releases that validate the parameter raise from
\* fit_predict (line 180), after the scaler was fitted (line 176), and the
\* except clause of lines 96-98 ends the call; older releases cluster with
\* every point a core point, which is DetectClusters.
RejectMinSamples ==
    /\ pc = "cluster"
    /\ min_cluster_size < 1
    /\ node_features.order # <<>>
    /\ scaler' = ScalerFit(FeatureMatrix(node_features))
    /\ result' = ErrorResponse("InvalidParameterError")
    /\ pc' = "done"
    /\ UNCHANGED <<min_cluster_size, network_data, node_features, clusters,
                   cluster_analysis, attack_patterns, args, thr>>

NextConfig == Next \/ RejectMinSamples

SpecConfig == InitConfig /\ [][NextConfig]_vars

-----------------------------------------------------------------------------
(* Requests during which a collaborator fails *)

MaxFaultEdges == 3

\* What str(e) is for the exceptions of the graph driver and of the
\* numeric libraries.
Faults == {"ServiceUnavailable", "MemoryError"}

InitFault ==
    /\ pc = "start"
    /\ min_cluster_size \in 1..2
    /\ network_data \in EdgeLists(EdgeMenu, MaxFaultEdges)
    /\ node_features = NoFeatures
    /\ scaler = UnfittedScaler
    /\ clusters = <<>>
    /\ cluster_analysis = <<>>
    /\ attack_patterns = <<>>
    /\ result = NoResult
    /\ args = <<>>
    /\ thr = <<>>

\* An exception leaves the step the call is at (the graph query of lines
\* 53-56 when it is at the start, then lines 62, 65, 69-73, 76-94): all of
\* them are inside the try of line 51, so the except clause of lines 96-98
\* ends the call.
Fault ==
    /\ pc \in {"start", "extract", "cluster", "analyze", "respond"}
    /\ \E e \in Faults : result' = ErrorResponse(e)
    /\ pc' = "done"
    /\ UNCHANGED <<min_cluster_size, network_data, node_features, scaler,
                   clusters, cluster_analysis, attack_patterns, args, thr>>

NextFault == Next \/ Fault

SpecFault == InitFault /\ [][NextFault]_vars

-----------------------------------------------------------------------------
(* The scoring step on its own *)

ScoreSizes == {5, 10, 11, 20, 21, 50, 51}

Concentrations == {Rat(k, 10) : k \in {0, 5, 6, 8, 9, 10}}

\* Similarities 1, 0.9, 0.8, 0 and -1
Similarities ==
    {OneMinusSqrt(q) : q \in {RInt(0), Rat(1, 100), Rat(1, 25), RInt(1), RInt(4)}}

Correlations == {RInt(0), Rat(7, 10), Rat(3, 4), RInt(1)}

IndicatorNames == {"sybil_attack", "wash_trading", "flash_loan_attack", "mixer_usage"}

ScoreArgs ==
    [cluster_size : ScoreSizes,
     funding_analysis : [funding_concentration : Concentrations,
                         amount_similarity : Similarities],
     timing_analysis : [activity_correlation : Correlations],
     attack_indicators : [IndicatorNames -> BOOLEAN]]

InitScore ==
    /\ pc = "score"
    /\ args \in ScoreArgs
    /\ min_cluster_size = 1
    /\ network_data = <<>>
    /\ node_features = NoFeatures
    /\ scaler = UnfittedScaler
    /\ clusters = <<>>
    /\ cluster_analysis = <<>>
    /\ attack_patterns = <<>>
    /\ result = NoResult
    /\ thr = <<>>

\* Lines 218-225 of _analyze_cluster_behavior on the given arguments.
ScoreCluster ==
    /\ pc = "score"
    /\ result' = Assess(args.cluster_size, args.funding_analysis,
                        args.timing_analysis, args.attack_indicators)
    /\ pc' = "scored"
    /\ UNCHANGED <<min_cluster_size, network_data, node_features, scaler,
                   clusters, cluster_analysis, attack_patterns, args, thr>>

SpecScore == InitScore /\ [][ScoreCluster]_vars

-----------------------------------------------------------------------------
(* Two requests inside _detect_clusters of the one analyzer instance *)

Threads == {1, 2}

MaxConcEdges == 3

\* A hub (9) paying 1, 2 and 3 unequal amounts.
ConcMenu ==
    <<Edge(9, 1, V(1), NoTs), Edge(9, 2, V(2), NoTs), Edge(9, 3, V(50), NoTs)>>

ConcLists == EdgeLists(ConcMenu, MaxConcEdges)

\* A request that has extracted its features and enters _detect_clusters.
Entering(data) ==
    [pc |-> "fit", features |-> _extract_network_features(data),
     scaled |-> <<>>, clusters |-> <<>>]

InitConc ==
    /\ pc = "concurrent"
    /\ min_cluster_size \in 1..MaxMinClusterSize
    /\ thr \in [Threads -> {Entering(data) : data \in ConcLists}]
    /\ network_data = <<>>
    /\ node_features = NoFeatures
    /\ scaler = UnfittedScaler
    /\ clusters = <<>>
    /\ cluster_analysis = <<>>
    /\ attack_patterns = <<>>
    /\ result = NoResult
    /\ args = <<>>

\* Lines 168-176, first half: the empty feature map returns at once;
\* otherwise self.scaler.fit stores this request's statistics.
Fit(t) ==
    /\ thr[t].pc = "fit"
    /\ IF thr[t].features.order = <<>>
       THEN /\ thr' = [thr EXCEPT ![t].pc = "done"]
            /\ UNCHANGED scaler
       ELSE /\ scaler' = ScalerFit(FeatureMatrix(thr[t].features))
            /\ thr' = [thr EXCEPT ![t].pc = "transform"]
    /\ UNCHANGED <<pc, min_cluster_size, network_data, node_features, clusters,
                   cluster_analysis, attack_patterns, result, args>>

\* Line 176, second half: self.scaler.transform reads the statistics the
\* scaler holds now.
Transform(t) ==
    /\ thr[t].pc = "transform"
    /\ thr' = [thr EXCEPT ![t].scaled =
                   ScalerTransform(scaler, FeatureMatrix(thr[t].features)),
                          ![t].pc = "dbscan"]
    /\ UNCHANGED <<pc, min_cluster_size, network_data, node_features, scaler,
                   clusters, cluster_analysis, attack_patterns, result, args>>

\* Lines 178-194
Cluster(t) ==
    /\ thr[t].pc = "dbscan"
    /\ thr' = [thr EXCEPT ![t].clusters =
                   ClustersOf(thr[t].features.order, thr[t].scaled,
                              min_cluster_size),
                          ![t].pc = "done"]
    /\ UNCHANGED <<pc, min_cluster_size, network_data, node_features, scaler,
                   clusters, cluster_analysis, attack_patterns, result, args>>

NextConc == \E t \in Threads : Fit(t) \/ Transform(t) \/ Cluster(t)

SpecConc == InitConc /\ [][NextConc]_vars

-----------------------------------------------------------------------------
(* _detect_clusters called several times in sequence on one instance *)

MaxRuns == 3

MaxRepeatEdges == 2

RepeatLists == EdgeLists(ConcMenu, MaxRepeatEdges)

\* network_data is the edge list of the repeated run, args.other the edge
\* list of the runs in between; thr is the log of the runs so far.
InitRepeat ==
    /\ pc = "repeat"
    /\ min_cluster_size \in 1..MaxMinClusterSize
    /\ network_data \in RepeatLists
    /\ args \in [other : RepeatLists]
    /\ thr = <<>>
    /\ node_features = NoFeatures
    /\ scaler = UnfittedScaler
    /\ clusters = <<>>
    /\ cluster_analysis = <<>>
    /\ attack_patterns = <<>>
    /\ result = NoResult

\* One complete call of _detect_clusters (lines 165-194) on the features
\* of data, with the scaler the instance holds.
RunOn(data) ==
    _detect_clusters(_extract_network_features(data), min_cluster_size, scaler)

\* A run on the repeated edge list; the instance keeps the scaler.
RunSame ==
    /\ pc = "repeat"
    /\ Len(thr) < MaxRuns
    /\ LET r == RunOn(network_data)
       IN  /\ thr' = Append(thr, [on |-> "same", clusters |-> r.clusters])
           /\ scaler' = r.scaler
    /\ UNCHANGED <<pc, min_cluster_size, network_data, node_features, clusters,
                   cluster_analysis, attack_patterns, result, args>>

\* A run on the other edge list.
RunOther ==
    /\ pc = "repeat"
    /\ Len(thr) < MaxRuns
    /\ LET r == RunOn(args.other)
       IN  /\ thr' = Append(thr, [on |-> "other", clusters |-> r.clusters])
           /\ scaler' = r.scaler
    /\ UNCHANGED <<pc, min_cluster_size, network_data, node_features, clusters,
                   cluster_analysis, attack_patterns, result, args>>

NextRepeat == RunSame \/ RunOther

SpecRepeat == InitRepeat /\ [][NextRepeat]_vars

-----------------------------------------------------------------------------
(* Properties *)

\* The request has its feature map.
FeaturesExtracted ==
    \/ pc \in {"cluster", "analyze", "respond"}
    \/ pc = "done" /\ network_data # <<>>

\* The request has its cluster map.
ClustersDetected ==
    \/ pc \in {"analyze", "respond"}
    \/ pc = "done" /\ network_data # <<>>

\* The call returned the full response.
Responded == pc = "done" /\ "network_overview" \in DOMAIN result

EdgesInto(a) == {i \in 1..Len(network_data) : network_data[i].to_address = a}

EdgesOutOf(a) == {i \in 1..Len(network_data) : network_data[i].from_address = a}

\* The in_degrees and the out_degrees of the feature map, address by address.
InDegrees ==
    [i \in 1..Len(node_features.order) |->
        node_features.feat[node_features.order[i]].in_degree]

OutDegrees ==
    [i \in 1..Len(node_features.order) |->
        node_features.feat[node_features.order[i]].out_degree]

\* C1: once the features are extracted, the in_degrees of all addresses and
\* the out_degrees of all addresses each sum to the number of edges, and
\* every address has one in_degree per edge that ends at it and one
\* out_degree per edge that starts at it, self-transfers included.
C1_DegreeSums ==
    FeaturesExtracted =>
        /\ SumSeq(InDegrees) = Len(network_data)
        /\ SumSeq(OutDegrees) = Len(network_data)
        /\ \A a \in Range(node_features.order) :
               /\ node_features.feat[a].in_degree = Cardinality(EdgesInto(a))
               /\ node_features.feat[a].out_degree = Cardinality(EdgesOutOf(a))

\* Features were extracted from a list that holds a self-transfer and
\* another edge.
C1_Witness ==
    /\ FeaturesExtracted
    /\ Len(network_data) >= 2
    /\ \E i \in 1..Len(network_data) :
           network_data[i].from_address = network_data[i].to_address

\* Every risk score the state holds: of a scored cluster, of the analyses.
RiskScores ==
    (IF "risk_score" \in DOMAIN result THEN {result.risk_score} ELSE {})
    \cup {cluster_analysis[k].risk_score : k \in 1..Len(cluster_analysis)}

\* C2: whatever the cluster size, the funding analysis, the timing analysis
\* and the four attack indicators are, the risk score is in [0, 100].
C2_ScoreInRange == \A x \in RiskScores : 0 <= x /\ x <= 100

\* A cluster of more than 50 members with every indicator set was scored:
\* its factors sum to more than 100 and the score is 100.
C2_Witness ==
    /\ pc = "scored"
    /\ args.cluster_size > 50
    /\ \A k \in IndicatorNames : args.attack_indicators[k]
    /\ result.risk_score = 100

\* C3: every cluster of the cluster map, and every cluster the response
\* reports, has at least min_cluster_size members.
C3_MinimumSize ==
    /\ ClustersDetected =>
           \A k \in 1..Len(clusters) : Len(clusters[k].nodes) >= min_cluster_size
    /\ Responded =>
           \A k \in 1..Len(result.clusters) :
               /\ result.clusters[k].size >= min_cluster_size
               /\ Len(result.clusters[k].addresses) >= min_cluster_size

\* What DBSCAN labelled, before the size filter.
Grouped ==
    LET Group(sm) ==
            The({GroupByLabel(node_features.order, labels, 1, <<>>) :
                 labels \in {Dbscan(sm, min_cluster_size)}})
        Scale(matrix) ==
            The({Group(sm) : sm \in {ScalerTransform(ScalerFit(matrix), matrix)}})
    IN  The({Scale(matrix) : matrix \in {FeatureMatrix(node_features)}})

\* A response reports a cluster while DBSCAN had also labelled a group of
\* fewer than min_cluster_size addresses (a border point went to the
\* cluster found first).
C3_Witness ==
    /\ Responded
    /\ result.clusters # <<>>
    /\ \E k \in 1..Len(Grouped) : Len(Grouped[k].nodes) < min_cluster_size

\* C4: every member of a cluster, and every address of a reported cluster,
\* is the from_address or the to_address of an edge of the edge list.
C4_MembersFromEdges ==
    /\ ClustersDetected =>
           \A k \in 1..Len(clusters) :
               Range(clusters[k].nodes) \subseteq AllAddresses(network_data)
    /\ Responded =>
           \A k \in 1..Len(result.clusters) :
               Range(result.clusters[k].addresses) \subseteq AllAddresses(network_data)

\* A response reports a cluster.
C4_Witness == Responded /\ result.clusters # <<>>

ClusterTypes ==
    {"Sybil Attack Network", "Wash Trading Ring", "Coordinated Bot Network",
     "Single-Source Funded Network", "Organic Cluster"}

\* C5: the cluster type is the first of Sybil Attack Network (sybil_attack),
\* Wash Trading Ring (wash_trading), Coordinated Bot Network
\* (activity_correlation > 0.7), Single-Source Funded Network
\* (funding_concentration > 0.8) whose condition holds, Organic Cluster when
\* none does; it is one of the five values.
C5_FirstMatchWins ==
    pc = "scored" =>
        LET sybil == args.attack_indicators.sybil_attack
            wash  == args.attack_indicators.wash_trading
            bot   == RLt(Rat(7, 10), args.timing_analysis.activity_correlation)
            sole  == RLt(Rat(8, 10), args.funding_analysis.funding_concentration)
            type  == result.cluster_type
        IN  /\ type \in ClusterTypes
            /\ sybil => type = "Sybil Attack Network"
            /\ ~sybil /\ wash => type = "Wash Trading Ring"
            /\ ~sybil /\ ~wash /\ bot => type = "Coordinated Bot Network"
            /\ ~sybil /\ ~wash /\ ~bot /\ sole =>
                   type = "Single-Source Funded Network"
            /\ ~sybil /\ ~wash /\ ~bot /\ ~sole => type = "Organic Cluster"

\* A cluster with sybil_attack and wash_trading both true was classified.
C5_Witness ==
    /\ pc = "scored"
    /\ args.attack_indicators.sybil_attack
    /\ args.attack_indicators.wash_trading
    /\ result.cluster_type = "Sybil Attack Network"

\* The cross-cluster patterns have been computed.
PatternsDetected == pc = "respond" \/ Responded

\* The two clusters a pattern's description names.
PatternPair(p) == {p.description[2], p.description[4]}

\* C6: the patterns hold at most one Cross-Cluster Coordination pattern
\* per unordered pair of clusters.
C6_OncePerPair ==
    PatternsDetected =>
        \A i, j \in 1..Len(attack_patterns) :
            i # j => PatternPair(attack_patterns[i]) # PatternPair(attack_patterns[j])

\* The edges with one endpoint in A and the other in B, either direction.
Crossing(A, B) ==
    {i \in 1..Len(network_data) :
        \/ network_data[i].from_address \in A /\ network_data[i].to_address \in B
        \/ network_data[i].from_address \in B /\ network_data[i].to_address \in A}

PatternsFor(k, l) ==
    {i \in 1..Len(attack_patterns) :
        PatternPair(attack_patterns[i]) = {clusters[k].cluster_id, clusters[l].cluster_id}}

\* C7: for two distinct clusters a Cross-Cluster Coordination pattern is
\* emitted exactly when more than 5 edges cross between them, counted in
\* both directions; the pattern is HIGH and carries the count.
C7_PatternIffMoreThanFive ==
    PatternsDetected =>
        \A k, l \in 1..Len(clusters) :
            k # l =>
                LET n == Cardinality(Crossing(Range(clusters[k].nodes),
                                              Range(clusters[l].nodes)))
                IN  /\ (PatternsFor(k, l) # {}) <=> (n > 5)
                    /\ \A i \in PatternsFor(k, l) :
                           /\ attack_patterns[i].pattern_type =
                                  "Cross-Cluster Coordination"
                           /\ attack_patterns[i].risk_level = "HIGH"
                           /\ attack_patterns[i].evidence[1] = n

\* Two clusters with 9 edges between them, and their pattern.
C7_Witness ==
    /\ PatternsDetected
    /\ \E k, l \in 1..Len(clusters) :
           /\ k # l
           /\ Cardinality(Crossing(Range(clusters[k].nodes),
                                    Range(clusters[l].nodes))) = 9
           /\ PatternsFor(k, l) # {}

C9_FaultIsolated ==
    (pc = "done" /\ network_data # <<>>) =>
        /\ "clusters" \in DOMAIN result
        /\ \A k \in 1..Len(clusters) :
               \E i \in 1..Len(result.clusters) :
                   result.clusters[i].cluster_id = clusters[k].cluster_id

\* What the request returns when it runs alone.
Alone(t) ==
    _detect_clusters(thr[t].features, min_cluster_size, UnfittedScaler).clusters

\* C10: under every interleaving, a request returns the clusters it
\* returns when it runs alone.
C10_NoInterference ==
    \A t \in Threads : thr[t].pc = "done" => thr[t].clusters = Alone(t)

\* The edges that have a as an endpoint and a timestamp that parses.
ParsableAt(a) ==
    {i \in EdgesInto(a) \cup EdgesOutOf(a) : network_data[i].timestamp.kind = "iso"}

MinutesAt(a) == {network_data[i].timestamp.minutes : i \in ParsableAt(a)}

\* C11: an address with a parsable timestamp has as activity span the
\* whole days between the latest and the earliest of its parsable
\* timestamps, whatever unparsable timestamps its other edges carry; an
\* address without a parsable timestamp has span 0.
C11_SpanOverParsable ==
    FeaturesExtracted =>
        \A a \in Range(node_features.order) :
            node_features.feat[a].activity_span_days =
                IF MinutesAt(a) = {} THEN 0
                ELSE LET latest   == CHOOSE m \in MinutesAt(a) :
                                         \A n \in MinutesAt(a) : n <= m
                         earliest == CHOOSE m \in MinutesAt(a) :
                                         \A n \in MinutesAt(a) : m <= n
                     IN  (latest - earliest) \div MinutesPerDay

\* The sum of tx.get('value', 0) over a set of edges of the list.
ValueOver(I) ==
    LET idx == SortedSeq(I)
    IN  SumSeq([k \in 1..Len(idx) |-> GetValue(network_data[idx[k]])])

\* The edges with a parsable timestamp and an endpoint among the nodes.
ParsableIn(nodes) ==
    {i \in 1..Len(network_data) :
        /\ network_data[i].timestamp.kind = "iso"
        /\ {network_data[i].from_address, network_data[i].to_address} \cap nodes # {}}

\* The 15-minute windows those edges fall in, and the nodes seen in one.
WindowsOf(nodes) ==
    {WindowKey(network_data[i].timestamp.minutes) : i \in ParsableIn(nodes)}

SeenIn(w, nodes) ==
    {a \in nodes : \E i \in ParsableIn(nodes) :
        /\ WindowKey(network_data[i].timestamp.minutes) = w
        /\ a \in {network_data[i].from_address, network_data[i].to_address}}

\* The mean share of the nodes seen per window; 0 without a window.
MeanParticipation(nodes) ==
    LET ws == SortedSeq(WindowsOf(nodes))
    IN  IF ws = <<>> THEN RInt(0)
        ELSE RMean([k \in 1..Len(ws) |->
                       Rat(Cardinality(SeenIn(ws[k], nodes)), Cardinality(nodes))])

\* C12: an edge whose timestamp is absent or unparsable does not abort the
\* call; it counts in in_degree, out_degree, in_volume, out_volume and
\* tx_count like any edge; and in the timing analysis of a cluster only the
\* edges with a parsable timestamp put addresses into 15-minute windows.
C12_BadTimestampSkipped ==
    /\ (pc = "done" /\ network_data # <<>>
            /\ \A i \in 1..Len(network_data) : network_data[i].value # <<>>)
           => Responded
    /\ FeaturesExtracted =>
           \A a \in Range(node_features.order) :
               LET f == node_features.feat[a]
               IN  /\ f.in_degree = Cardinality(EdgesInto(a))
                   /\ f.out_degree = Cardinality(EdgesOutOf(a))
                   /\ f.in_volume = ValueOver(EdgesInto(a))
                   /\ f.out_volume = ValueOver(EdgesOutOf(a))
                   /\ f.tx_count = Cardinality(EdgesInto(a)) + Cardinality(EdgesOutOf(a))
    /\ \A k \in 1..Len(cluster_analysis) :
           LET nodes == Range(cluster_analysis[k].addresses)
               t     == cluster_analysis[k].timing_analysis
           IN  /\ t.activity_correlation = MeanParticipation(nodes)
               /\ \A c \in 1..Len(t.coordinated_windows) :
                      t.coordinated_windows[c].timestamp \in WindowsOf(nodes)

\* A response reports a cluster one of whose addresses has an edge with an
\* unparsable timestamp and an edge with a parsable one.
C12_Witness ==
    /\ Responded
    /\ \E k \in 1..Len(result.clusters) :
           \E a \in Range(result.clusters[k].addresses) :
               /\ ParsableAt(a) # {}
               /\ \E i \in EdgesInto(a) \cup EdgesOutOf(a) :
                      network_data[i].timestamp.kind = "bad"
    /\ \E i \in 1..Len(network_data) : network_data[i].timestamp.kind = "none"

\* C13: a feature map of fewer than 2 addresses gives an empty cluster map
\* for every min_cluster_size, and the scaler and DBSCAN are not run for it
\* (the scaler of the analyzer stays unfitted).
C13_FewerThanTwoNoClusters ==
    (ClustersDetected /\ Len(node_features.order) < 2) =>
        /\ clusters = <<>>
        /\ scaler = UnfittedScaler

\* The call of _analyze_cluster_behavior returned an analysis.
Analyzed == pc = "analyzed" /\ "cluster_type" \in DOMAIN result

Members == Range(args.cluster_nodes)

\* The edges with both endpoints, and with exactly one endpoint, in the cluster.
InternalEdges ==
    {i \in 1..Len(network_data) :
        network_data[i].from_address \in Members /\ network_data[i].to_address \in Members}

ExternalEdges ==
    {i \in 1..Len(network_data) :
        (network_data[i].from_address \in Members) # (network_data[i].to_address \in Members)}

\* The non-members that send an edge to a member.
Funders ==
    {network_data[i].from_address : i \in
        {j \in ExternalEdges : network_data[j].to_address \in Members}}

\* C14: for a cluster that touches no edge of the list, whatever its size,
\* _analyze_cluster_behavior returns, with no funding source, concentration
\* 0, similarity 0, activity correlation 0, every attack indicator false
\* and the type Organic Cluster.
C14_UntouchedClusterAllZero ==
    (pc = "analyzed" /\ InternalEdges = {} /\ ExternalEdges = {}) =>
        /\ Analyzed
        /\ result.funding_analysis.external_funding_sources = 0
        /\ result.funding_analysis.funding_concentration = RInt(0)
        /\ result.funding_analysis.amount_similarity = OneMinusSqrt(RInt(1))
        /\ result.timing_analysis.activity_correlation = RInt(0)
        /\ \A k \in IndicatorNames : ~result.attack_indicators[k]
        /\ result.cluster_type = "Organic Cluster"

\* C15: sybil_attack is true exactly when the cluster has at least 10
\* members and at most 3 external funding sources, the count that the
\* funding analysis of the same result reports (the distinct non-members
\* that send an edge to a member).
C15_SybilIffSizeAndFunders ==
    Analyzed =>
        /\ result.funding_analysis.external_funding_sources = Cardinality(Funders)
        /\ result.attack_indicators.sybil_attack <=>
               (result.size >= 10
                   /\ result.funding_analysis.external_funding_sources <= 3)

\* A cluster of 10 members with 3 funders was flagged.
C15_Witness ==
    /\ Analyzed
    /\ result.size = 10
    /\ Cardinality(Funders) = 3
    /\ result.attack_indicators.sybil_attack

\* C16: wash_trading is true exactly when the values of the internal edges
\* sum to more than twice the sum of the values of the external edges.
C16_WashIffInternalOverTwiceExternal ==
    Analyzed =>
        (result.attack_indicators.wash_trading <=>
            ValueOver(InternalEdges) > 2 * ValueOver(ExternalEdges))

\* Internal volume 3 times a positive external volume was flagged.
C16_Witness ==
    /\ Analyzed
    /\ ValueOver(ExternalEdges) > 0
    /\ ValueOver(InternalEdges) = 3 * ValueOver(ExternalEdges)
    /\ result.attack_indicators.wash_trading

\* C17: the risk score is min(100, S + F + A + T + 15 k): S is 30, 20, 10
\* for a size above 50, 20, 10 and 0 otherwise; F is 25 for a funding
\* concentration above 0.8, 15 above 0.5; A is 20 for an amount similarity
\* above 0.8 (1 - sqrt(q) > 0.8, that is q < 1/25); T is 25 for an activity
\* correlation above 0.7; k is the number of true attack indicators.
C17_ScoreFormula ==
    pc = "scored" =>
        LET size == args.cluster_size
            conc == args.funding_analysis.funding_concentration
            q    == args.funding_analysis.amount_similarity.one_minus_sqrt_of
            corr == args.timing_analysis.activity_correlation
            S == IF size > 50 THEN 30 ELSE IF size > 20 THEN 20
                 ELSE IF size > 10 THEN 10 ELSE 0
            F == IF RLt(Rat(4, 5), conc) THEN 25
                 ELSE IF RLt(Rat(1, 2), conc) THEN 15 ELSE 0
            A == IF RLt(q, Rat(1, 25)) THEN 20 ELSE 0
            T == IF RLt(Rat(7, 10), corr) THEN 25 ELSE 0
            k == Cardinality({i \in IndicatorNames : args.attack_indicators[i]})
            sum == S + F + A + T + 15 * k
        IN  result.risk_score = IF sum > 100 THEN 100 ELSE sum

\* A cluster of exactly 50 members, concentration in (0.5, 0.8], similarity
\* exactly 0.8, correlation exactly 0.7 and one indicator scored 20+15+15.
C17_Witness ==
    /\ pc = "scored"
    /\ args.cluster_size = 50
    /\ args.funding_analysis.funding_concentration = Rat(8, 10)
    /\ args.funding_analysis.amount_similarity = OneMinusSqrt(Rat(1, 25))
    /\ args.timing_analysis.activity_correlation = Rat(7, 10)
    /\ Cardinality({i \in IndicatorNames : args.attack_indicators[i]}) = 1
    /\ result.risk_score = 50

\* C18: with the funding analysis, the timing analysis and the indicators
\* fixed, a smaller cluster has neither a larger size contribution nor a
\* larger risk score.
C18_MonotoneInSize ==
    pc = "scored" =>
        \A n \in 1..args.cluster_size :
            /\ SizeFactor(n) <= SizeFactor(args.cluster_size)
            /\ _calculate_cluster_risk_score(n, args.funding_analysis,
                   args.timing_analysis, args.attack_indicators) <= result.risk_score

\* A cluster of 51 members scored 30 more than a cluster of 10 does.
C18_Witness ==
    /\ pc = "scored"
    /\ args.cluster_size = 51
    /\ result.risk_score < 100
    /\ result.risk_score =
           30 + _calculate_cluster_risk_score(10, args.funding_analysis,
                    args.timing_analysis, args.attack_indicators)

RiskLevels == <<"MINIMAL", "LOW", "MEDIUM", "HIGH", "CRITICAL">>

Rank(level) == CHOOSE r \in 1..Len(RiskLevels) : RiskLevels[r] = level

\* C19: the risk level of a result follows from its risk score: CRITICAL
\* from 80, HIGH from 60, MEDIUM from 40, LOW from 20, MINIMAL below;
\* every score in [0, 100] has a level and a lower score never has a
\* higher level.
C19_LevelFromScore ==
    pc = "scored" =>
        LET x == result.risk_score
            l == result.risk_level
        IN  /\ l = "CRITICAL" <=> x >= 80
            /\ l = "HIGH" <=> (60 <= x /\ x < 80)
            /\ l = "MEDIUM" <=> (40 <= x /\ x < 60)
            /\ l = "LOW" <=> (20 <= x /\ x < 40)
            /\ l = "MINIMAL" <=> x < 20
            /\ \A y \in 0..100 :
                   /\ _get_risk_level(y) \in Range(RiskLevels)
                   /\ y <= x => Rank(_get_risk_level(y)) <= Rank(l)
                   /\ y >= x => Rank(_get_risk_level(y)) >= Rank(l)

\* A score of exactly 80 got the level CRITICAL.
C19_Witness ==
    /\ pc = "scored"
    /\ result.risk_score = 80
    /\ result.risk_level = "CRITICAL"

\* C20: a call with a negative min_cluster_size is rejected before the
\* pipeline starts: no feature is extracted, the scaler is not fitted, no
\* cluster is computed, and what the call returns is an error.
C20_InvalidRejectedFirst ==
    min_cluster_size < 0 =>
        /\ node_features = NoFeatures
        /\ scaler = UnfittedScaler
        /\ clusters = <<>>
        /\ pc = "done" => "error" \in DOMAIN result

\* The membership sets of a cluster map.
Memberships(cl) == {Range(cl[k].nodes) : k \in 1..Len(cl)}

\* C21: the runs of the cluster detector on the same edges, with the same
\* min_cluster_size, on one instance give the same membership sets,
\* whatever runs on other edges happen between them.
C21_SameRunSameClusters ==
    \A i, j \in 1..Len(thr) :
        (thr[i].on = "same" /\ thr[j].on = "same") =>
            Memberships(thr[i].clusters) = Memberships(thr[j].clusters)

\* Two runs on the same edges found a cluster, with a run between them on
\* edges that gave the scaler other statistics.
C21_Witness ==
    /\ Len(thr) = 3
    /\ thr[1].on = "same" /\ thr[2].on = "other" /\ thr[3].on = "same"
    /\ thr[3].clusters # <<>>
    /\ network_data # <<>> /\ args.other # <<>>
    /\ ScalerFit(FeatureMatrix(_extract_network_features(network_data)))
           # ScalerFit(FeatureMatrix(_extract_network_features(args.other)))

\* The orders in which the edges of the list can come.
Reorderings ==
    LET n == Len(network_data)
    IN  {[i \in 1..n |-> network_data[p[i]]] :
            p \in {q \in [1..n -> 1..n] : \A i, j \in 1..n : q[i] = q[j] => i = j}}

\* C22: the feature map extracted from the edge list is the one extracted
\* from each reordering of it: the same addresses, each with the same
\* feature vector.
C22_OrderIndependent ==
    pc = "cluster" =>
        \A data \in Reorderings :
            _extract_network_features(data).feat = node_features.feat

\* Features were extracted from three different edges, two of them with
\* timestamps days apart at one address.
C22_Witness ==
    /\ pc = "cluster"
    /\ Cardinality(Range(network_data)) = 3
    /\ \E a \in Range(node_features.order) :
           node_features.feat[a].activity_span_days > 0

\* Every edge carries a value, as the input contract says.
AllValued == \A i \in 1..Len(network_data) : network_data[i].value # NoV

\* C23: a cluster of 12 members whose funding edges all come from one
\* outside address, at least one unit in total, is reported with a funding
\* concentration above 0.9, an amount similarity above 0.8, as a "Sybil
\* Attack Network", at level HIGH or CRITICAL, whatever its other edges are.
C23_SingleFunderOfTwelve ==
    (/\ Analyzed
     /\ AllValued
     /\ Len(args.cluster_nodes) = 12
     /\ Cardinality(Funders) = 1
     /\ SumSeq([i \in 1..Len(network_data) |->
                   IF i \in ExternalEdges /\ network_data[i].to_address \in Members
                   THEN GetValue(network_data[i]) ELSE 0]) >= 1)
    => /\ RLt(Rat(9, 10), result.funding_analysis.funding_concentration)
       /\ ExceedsFrac(result.funding_analysis.amount_similarity, 8, 10)
       /\ result.cluster_type = "Sybil Attack Network"
       /\ result.risk_level \in {"HIGH", "CRITICAL"}

\* Twelve members funded by the outsider 101 alone, with edges between the
\* members at different times, analysed as HIGH.
C23_Witness ==
    /\ Analyzed
    /\ AllValued
    /\ Len(args.cluster_nodes) = 12
    /\ Funders = {101}
    /\ InternalEdges # {}
    /\ result.funding_analysis.total_funding_amount = InEther(1)
    /\ result.cluster_type = "Sybil Attack Network"
    /\ result.risk_level = "HIGH"

\* The call has a next step: the step it is at or the fault that ends it.
Continues ==
    \/ pc \in {"start", "extract", "cluster", "respond"}
    \/ pc = "analyze" /\ Len(cluster_analysis) <= Len(clusters)

\* C24: analyze_network_clusters never leaves by an exception: whichever
\* step fails, the graph query included, the call goes on to its end, where
\* it has returned a result object; and a result that reports an error
\* carries no cluster list.
C24_NonThrowing ==
    /\ pc # "done" => Continues
    /\ pc = "done" =>
          /\ result # NoResult
          /\ "raised" \notin DOMAIN result
          /\ "error" \in DOMAIN result => DOMAIN result = {"error"}

\* The call failed after it had analysed a cluster, and reports the error.
C24_Witness ==
    /\ pc = "done"
    /\ "error" \in DOMAIN result
    /\ result.error \in Faults
    /\ cluster_analysis # <<>>

\* The share of the members seen in window w.
Participation(w) == Rat(Cardinality(SeenIn(w, Members)), Cardinality(Members))

\* C25: the participation of a 15-minute window is the number of members
\* that are an endpoint of an edge with a parsable timestamp in the window,
\* over the cluster size, and lies in (0,1]; activity_correlation is the
\* mean of the participations (0 without a window) and lies in [0,1];
\* peak_coordination is the largest of them; and coordinated_windows lists
\* exactly the windows whose participation is above 1/2, each with its
\* participation.
C25_ParticipationPerWindow ==
    Analyzed =>
        LET t == result.timing_analysis
        IN  /\ \A w \in WindowsOf(Members) :
                   RLt(RInt(0), Participation(w)) /\ RLe(Participation(w), RInt(1))
            /\ t.activity_correlation = MeanParticipation(Members)
            /\ RLe(RInt(0), t.activity_correlation)
            /\ RLe(t.activity_correlation, RInt(1))
            /\ Range(t.coordinated_windows) =
                   {[timestamp |-> w, participation_rate |-> Participation(w)] :
                       w \in {v \in WindowsOf(Members) : RLt(Rat(1, 2), Participation(v))}}
            /\ Len(t.coordinated_windows) = Cardinality(Range(t.coordinated_windows))
            /\ "peak_coordination" \in DOMAIN t =>
                   /\ \A w \in WindowsOf(Members) : RLe(Participation(w), t.peak_coordination)
                   /\ WindowsOf(Members) # {} =>
                          \E w \in WindowsOf(Members) : Participation(w) = t.peak_coordination

\* A cluster of two with a window in which both members are seen, which is
\* listed, and a window in which one of the two is seen, which is not.
C25_Witness ==
    /\ Analyzed
    /\ Cardinality(Members) = 2
    /\ \E w \in WindowsOf(Members) : Participation(w) = RInt(1)
    /\ \E w \in WindowsOf(Members) : Participation(w) = Rat(1, 2)
    /\ Len(result.timing_analysis.coordinated_windows) = 1
    /\ \E i \in ExternalEdges \cup InternalEdges :
           network_data[i].timestamp.kind # "iso"

\* The edges from a non-member to a member, and what one sender sent over them.
FundingEdges == {j \in ExternalEdges : network_data[j].to_address \in Members}

SentBy(s) == ValueOver({j \in FundingEdges : network_data[j].from_address = s})

\* The edge list without the edges that are not funding edges.
OnlyFundingEdges ==
    LET Keep(tx) == tx.to_address \in Members /\ tx.from_address \notin Members
    IN  SelectSeq(network_data, Keep)

\* C26: the funding analysis of a cluster is the one of the edges from a
\* non-member to a member alone; it counts the distinct non-member senders
\* of these edges; and its concentration is the largest amount one of them
\* sent over the larger of 1 and the amount all of them sent, between 0 and 1.
C26_FundingFromOutsideOnly ==
    Analyzed =>
        LET f == result.funding_analysis
            largest == IF Funders = {} THEN 0
                       ELSE CHOOSE m \in {SentBy(s) : s \in Funders} :
                                \A s \in Funders : SentBy(s) <= m
        IN  /\ f = _analyze_funding_patterns(args.cluster_nodes, OnlyFundingEdges)
            /\ f.external_funding_sources = Cardinality(Funders)
            /\ f.total_funding_amount = InEther(ValueOver(FundingEdges))
            /\ f.funding_concentration = Rat(largest, Max2(1, ValueOver(FundingEdges)))
            /\ RLe(RInt(0), f.funding_concentration)
            /\ RLe(f.funding_concentration, RInt(1))

\* A cluster with two funders, edges between its members and an edge to an
\* outsider.
C26_Witness ==
    /\ Analyzed
    /\ Cardinality(Funders) = 2
    /\ InternalEdges # {}
    /\ \E j \in ExternalEdges : network_data[j].from_address \in Members
    /\ result.funding_analysis.funding_concentration = Rat(1, 2)

\* The addresses that are an end of an edge of the list.
Endpoints ==
    UNION {{network_data[i].from_address, network_data[i].to_address} :
              i \in 1..Len(network_data)}

\* C27: clustering_coverage is the sum of the sizes of the reported
\* clusters over the larger of 1 and the number of distinct addresses of the
\* edge list, and lies between 0 and 1.
C27_CoverageFormula ==
    Responded =>
        LET c == result.network_metrics.clustering_coverage
            sizes == [k \in 1..Len(result.clusters) |-> result.clusters[k].size]
        IN  /\ c = Rat(SumSeq(sizes), Max2(1, Cardinality(Endpoints)))
            /\ RLe(RInt(0), c)
            /\ RLe(c, RInt(1))

\* A response with a cluster that leaves some addresses of the list out.
C27_Witness ==
    /\ Responded
    /\ result.clusters # <<>>
    /\ RLt(RInt(0), result.network_metrics.clustering_coverage)
    /\ RLt(result.network_metrics.clustering_coverage, RInt(1))
    /\ \E i \in 1..Len(network_data) :
           network_data[i].from_address = network_data[i].to_address

\* C28: the clusters of one run of _detect_clusters share no address, and
\* none holds an address twice.
C28_ClustersDisjoint ==
    ClustersDetected =>
        /\ \A k, l \in 1..Len(clusters) :
               k # l => Range(clusters[k].nodes) \cap Range(clusters[l].nodes) = {}
        /\ \A k \in 1..Len(clusters) :
               Cardinality(Range(clusters[k].nodes)) = Len(clusters[k].nodes)

\* A run that found two clusters, one of them of several addresses.
C28_Witness ==
    /\ ClustersDetected
    /\ Len(clusters) >= 2
    /\ \E k \in 1..Len(clusters) : Len(clusters[k].nodes) >= 2

\* C29: suspicious_cluster_count is at most cluster_count and at most the
\* number of clusters above the level MINIMAL; it is 0 in a response whose
\* clusters all have a risk score below 20.
C29_MinimalNotSuspicious ==
    Responded =>
        LET o == result.network_overview
            AboveMinimal == {k \in 1..Len(result.clusters) :
                                result.clusters[k].risk_level # "MINIMAL"}
        IN  /\ o.suspicious_cluster_count <= o.cluster_count
            /\ o.suspicious_cluster_count <= Cardinality(AboveMinimal)
            /\ (\A k \in 1..Len(result.clusters) : result.clusters[k].risk_score < 20)
                   => o.suspicious_cluster_count = 0

\* C30: the amount similarity of a cluster is a number between 0 and 1: it
\* is 0 for a cluster without a funding source, 1 when all the funding
\* sources sent the same amount, and it is never below 0.
C30_SimilarityInUnitInterval ==
    Analyzed =>
        LET sim == result.funding_analysis.amount_similarity
        IN  /\ RLe(RInt(0), sim.one_minus_sqrt_of)
            /\ RLe(sim.one_minus_sqrt_of, RInt(1))
            /\ Funders = {} => sim = OneMinusSqrt(RInt(1))
            /\ (Funders # {} /\ \A s, t \in Funders : SentBy(s) = SentBy(t))
                   => sim.one_minus_sqrt_of = RInt(0)

=============================================================================
